---- MODULE Spec2Model ----
(***************************************************************************)
(* Real-time audio ingest and transcript fan-out of meeting-ai-analytics. *)
(*                                                                         *)
(* Components, each with its own next-state relation over one shared       *)
(* state:                                                                  *)
(*   Spec       routers/ws.py  websocket_ingest (the mounted endpoint)     *)
(*   SpecNew    websocket/ingest.py  handle_websocket_ingest               *)
(*   SpecRelay  the same handler with the listener of                      *)
(*              services/asr/deepgram_live.py  DeepgramLiveClient;         *)
(*              SpecRelayFair adds the fairness of the event loop          *)
(*   SpecSub    routers/ws.py  websocket_subscriber, with RedisBus and     *)
(*              ConnectionManager.broadcast_to_meeting                     *)
(*   SpecOrder  the same subscribers with two published messages           *)
(*   SpecBus    services/pubsub/redis_bus.py  RedisBus, with two topics,   *)
(*              its callers, the broker and its listener task              *)
(*   SpecClient services/asr/deepgram_live.py  DeepgramLiveClient, one     *)
(*              object with its callers and its listener                   *)
(*   SpecStore  services/transcript/store.py  TranscriptStore              *)
(*   SpecRate   websocket/ingest.py  ConnectionRateLimiter                 *)
(*                                                                         *)
(* A coroutine is a process; one action is the code between two of its     *)
(* suspension points (an await that reaches the network or the database).  *)
(***************************************************************************)
EXTENDS Integers, Sequences, FiniteSets, TLC

\* ------------------------------------------------------------------ bounds
\* Ingest connections (websocket objects) the model lets arrive.
NumSessions == 3
\* Settings.MAX_WS_CLIENTS_PER_MEETING (default 20), scaled down.
MAX_WS_CLIENTS_PER_MEETING == 2
\* Final segments the model lets be published.
MaxMsgs == 1
\* Final segments published where the order of delivery is followed.
MaxOrderMsgs == 2
\* Subscriber connections followed there.
NumOrderSubs == 2
\* Calls of store_final_transcript the model lets be made.
NumCalls == 3
\* The clock advances in steps of TickStep seconds, up to MaxTime.
TickStep == 5
MaxTime == 15
\* Connection attempts stop for a key after MaxHistory admissions.
MaxHistory == 7
\* Results the speech-recognition service sends, over all relays.
MaxResults == 2
\* Ingest connections whose relay is followed together with its listener.
NumRelaySessions == 2
\* Messages the broker sends to the bus where it is followed on its own.
MaxBusMsgs == 3
\* Calls of subscribe and unsubscribe made on it.
MaxBusCalls == 4
\* Calls of send_pcm on one client.
MaxPcmCalls == 3
\* Calls of disconnect() on one client, the one of finalize() not counted.
MaxDisconnects == 2

\* ------------------------------------------------------- program constants
\* Settings.INGEST_SAMPLE_RATE, INGEST_CHANNELS, MAX_INGEST_MSG_BYTES
INGEST_SAMPLE_RATE == 16000
INGEST_CHANNELS == 1
MAX_INGEST_MSG_BYTES == 32768
\* services/ws/connection.py: MAX_TEXT_MESSAGE_SIZE
MAX_TEXT_MESSAGE_SIZE == 64000
\* websocket/ingest.py: RATE_LIMIT_WINDOW (seconds), RATE_LIMIT_MAX_ATTEMPTS,
\* and the maxlen of the deques of rate_limit_storage
RATE_LIMIT_WINDOW == 10
RATE_LIMIT_MAX_ATTEMPTS == 5
RateDequeMaxLen == 10

\* Subscriber connections the model lets arrive: enough to fill a meeting,
\* be refused, and connect again after a disconnect.
NumSubs == MAX_WS_CLIENTS_PER_MEETING + 2
Sessions == 1..NumSessions
\* the connections whose relay is followed
RelaySessions == 1..NumRelaySessions
\* the DeepgramLiveClient object used without a connection (the objects
\* share no state, one is followed); it shares the numbering of the
\* connections
Clients == {1}
Calls == 1..NumCalls
\* subscriber websockets, numbered apart from the ingest websockets
Subs == 101..(100 + NumSubs)
Sockets == Sessions \cup Subs
Meetings == {"m1"}
\* the source query parameter, regex ^(mic|sys|system)$
UrlSources == {"mic", "sys", "system"}
\* The sources of the connection keys.  (routers/ws.py does not normalise
\* "system": there it is a third key, independent of the other two, and is
\* left out.)
Sources == {"mic", "sys"}
Keys == Meetings \X Sources
\* the topics of the bus that are followed: get_meeting_transcript_topic
\* and get_meeting_status_topic of one meeting
Topics == {"meeting:m1:transcript", "meeting:m1:status"}
\* the handlers registered with the bus where it is followed on its own
Handlers == {1, 2}
\* what the Authorization header or the token parameter can carry
Credentials == {"none", "bad", "good"}

\* The first application message of a connection.  0 stands for a field
\* that is missing or not an int, "" for a missing or empty device id.
HandshakeMsgs ==
    [type : {"handshake", "audio"},
     device_id : {"", "dev"},
     source : {"mic", "sys", "tape"},
     sample_rate : {0, INGEST_SAMPLE_RATE, 48000},
     channels : {INGEST_CHANNELS, 2}]
\* the message of a receive that delivered none
NoMsg == [type |-> "none", device_id |-> "", source |-> "none",
          sample_rate |-> 0, channels |-> 0]

VARIABLES
    \* ---- per ingest connection: the handler coroutine and its websocket
    pc,                 \* position of the handler
    connection_key,     \* (meeting_id, source) of the connection
    is_closing,         \* safe_close's nonlocal flag
    app_state,          \* websocket.application_state
    client_state,       \* websocket.client_state
    close_code,         \* code of the close sent on this websocket, 0: none
    acks,               \* handshake-ack messages sent on this websocket
    errors_sent,        \* error messages sent on this websocket
    hs_ok,              \* the handshake received met the four conditions
    first_frame,        \* what the receive of the first frame ended in
                        \* (history), "none": not yet
    handshake_source,   \* the source field of the handshake received
    authed,             \* decode_jwt_token returned claims
    \* ---- routers/ws.py module state and ws_manager
    ingest_registry,    \* connection_key -> entry
    ingest_connections, \* ws_manager.ingest_connections
    connection_meetings,\* ws_manager.connection_meetings
    meeting_segments,   \* meeting_id -> final-segment counter, -1: absent
    \* ---- websocket/ingest.py rate limiter
    now,                \* time.time(), in seconds
    rate_limit_storage, \* key -> deque of the timestamps admitted
    admitted,           \* key -> every timestamp admitted so far (history)
    rejected_at,        \* key -> time of the last attempt rejected, -1: none
    \* ---- subscribers (routers/ws.py), ws_manager, redis_bus
    redis,              \* redis_bus.redis: "unset", "connected", "none", "exit"
    sub_pc,             \* position of each subscriber handler
    sub_meeting,        \* meeting_id of each subscriber connection
    sub_close_code,     \* close code sent to each subscriber, 0: none
    subscriber_connections, \* ws_manager: meeting_id -> list of websockets
    subscribers,        \* redis_bus: topic -> handler (its owner), 0: none
    pubsub_channels,    \* topic -> the pubsub connection is subscribed to it
    inflight,           \* messages Redis delivered, not yet read by _listen_loop
    bc,                 \* the broadcast_to_meeting call in progress
    received,           \* subscriber -> transcript frames sent to it
    delivered,          \* subscriber -> the segment numbers of the messages
                        \* whose frame was sent to it, in order (history)
    published,          \* number of messages published so far
    pub_targets,        \* message -> its size and the subscribers in their
                        \* keep-alive loop and registered when it was
                        \* published (history)
    \* ---- services/transcript/store.py and the transcripts table
    store_pc,           \* position of each store_final_transcript call
    store_key,          \* its idempotent_key
    store_result,       \* its return value: "none", "True", "False"
    store_fault,        \* the database raised during the call
    store_after,        \* the calls that had returned when it began (history)
    transcripts,        \* the rows of the table, in insertion order
    \* ---- websocket/ingest.py handle_websocket_ingest (with the per
    \* connection variables above and ingest_registry, whose entries it
    \* identifies by connection_id)
    relay,              \* client: "none", "created" (is_connected False,
                        \* never connected), "connected" (is_connected
                        \* True), "disconnected" (is_connected False again)
    listener,           \* client._listener_task: "none", "running", "finished"
    transport,          \* client.websocket: "none", "open", "closed"
    transcripts_received, \* client.transcripts_received
    last_result,        \* is_final of the last result: "none", "partial",
                        \* "final" (history)
    frames_sent,        \* client.frames_sent: frames forwarded upstream
    message_count,      \* binary frames read by the message loop
    bytes_received,     \* their total length
    last_text,          \* the last text frame the client sent, "none": none
    \* ---- services/asr/deepgram_live.py DeepgramLiveClient, its callers
    is_finalizing,      \* client.is_finalizing
    bytes_sent,         \* client.bytes_sent
    upstream,           \* what was sent on client.websocket, in order: the
                        \* length of each PCM frame, 0 for CloseStream
    fin_pc,             \* position of the finalize() call: "none",
                        \* "sleeping" (asyncio.sleep(1.0)), "returned"
    disconnect_calls,   \* calls of disconnect() made so far (history)
    pcm_calls,          \* calls of send_pcm made so far (history)
    pcm_result,         \* how the last one ended: "none", "error" (it
                        \* raised RuntimeError), "refused" (it returned
                        \* without sending), "sent", "failed" (the send
                        \* raised)
    \* ---- services/pubsub/redis_bus.py RedisBus with the topics of one
    \* meeting and handlers that are not the subscriber endpoint's
    bus_handlers,       \* self.subscribers: topic -> handler, 0: none
    bus_channels,       \* topic -> self.pubsub is subscribed to it
    listen_task,        \* self._listen_task: "none", "running", "ended"
    tasks_created,      \* asyncio.create_task calls made so far (history)
    bus_inbox,          \* messages the broker sent, not yet read by
                        \* _listen_loop
    bus_arrived,        \* number of messages the broker sent so far
    invoked,            \* the handler invocations made, in order (history)
    bus_op              \* the last subscribe or unsubscribe call and the
                        \* number of calls so far (history)

sessVars == <<pc, connection_key, is_closing, app_state, client_state,
              close_code, acks, errors_sent, hs_ok, first_frame, handshake_source,
              authed>>
wsVars == <<ingest_registry, ingest_connections, connection_meetings,
            meeting_segments>>
rateVars == <<now, rate_limit_storage, admitted, rejected_at>>
subVars == <<redis, sub_pc, sub_meeting, sub_close_code, subscriber_connections,
             subscribers, pubsub_channels, inflight, bc, received, delivered, published,
             pub_targets>>
storeVars == <<store_pc, store_key, store_result, store_fault, store_after,
               transcripts>>
relayVars == <<listener, transport, transcripts_received, last_result>>
clientVars == <<is_finalizing, bytes_sent, upstream, fin_pc,
                disconnect_calls, pcm_calls, pcm_result>>
busVars == <<bus_handlers, bus_channels, listen_task, tasks_created,
             bus_inbox, bus_arrived, invoked, bus_op>>
newVars == <<relay, frames_sent, message_count, bytes_received, last_text,
             relayVars, clientVars, busVars>>
vars == <<sessVars, wsVars, rateVars, subVars, storeVars, newVars>>
\* what the handler of routers/ws.py does not touch
exceptWs == <<rateVars, subVars, storeVars, newVars>>

\* the most messages any of the specifications lets be published
MaxPublished == IF MaxOrderMsgs > MaxMsgs THEN MaxOrderMsgs ELSE MaxMsgs

NoKey == <<"none", "none">>
\* a value of ws_manager.connection_meetings: a meeting id (kind "str", a
\* subscriber), a (meeting_id, source) tuple (kind "tuple", an ingest
\* connection), or no entry (kind "none")
NoInfo == [kind |-> "none", meeting |-> "none", source |-> "none"]
NoEntry == [websocket |-> 0, source |-> "none", is_closing |-> FALSE]
\* a transcript.final message of segment n of meeting m whose JSON text has
\* size characters (status: the "status" key, which it does not have)
Payload(m, n, size) ==
    [type |-> "transcript.final", meeting_id |-> m, segment_no |-> n,
     status |-> "none", size |-> size]
NoPayload == [type |-> "none", meeting_id |-> "none", segment_no |-> 0,
              status |-> "none", size |-> 0]
\* a call of broadcast_to_meeting(meeting, message): msg is message_str, i
\* the position of the list iterator; targets are the websockets in the list
\* when the call began and reached those that were sent the text (history)
NoBroadcast == [active |-> FALSE, meeting |-> "none", message |-> NoPayload,
                msg |-> NoPayload, i |-> 0, dead |-> {}, stale |-> FALSE,
                targets |-> {}, reached |-> {}]

\* ------------------------------------------------------------------- Init
Init ==
    /\ pc = [s \in Sessions |-> "idle"]
    /\ connection_key = [s \in Sessions |-> NoKey]
    /\ is_closing = [s \in Sessions |-> FALSE]
    /\ app_state = [s \in Sessions |-> "CONNECTING"]
    /\ client_state = [s \in Sessions |-> "CONNECTING"]
    /\ close_code = [s \in Sessions |-> 0]
    /\ acks = [s \in Sessions |-> 0]
    /\ errors_sent = [s \in Sessions |-> 0]
    /\ hs_ok = [s \in Sessions |-> FALSE]
    /\ first_frame = [s \in Sessions |-> "none"]
    /\ handshake_source = [s \in Sessions |-> "none"]
    /\ authed = [s \in Sessions |-> FALSE]
    /\ ingest_registry = [k \in Keys |-> NoEntry]
    /\ ingest_connections = [k \in Keys |-> 0]
    /\ connection_meetings = [w \in Sockets |-> NoInfo]
    /\ meeting_segments = [m \in Meetings |-> -1]
    /\ now = 0
    /\ rate_limit_storage = [k \in Keys |-> <<>>]
    /\ admitted = [k \in Keys |-> <<>>]
    /\ rejected_at = [k \in Keys |-> -1]
    /\ redis = "unset"
    /\ sub_pc = [w \in Subs |-> "idle"]
    /\ sub_meeting = [w \in Subs |-> "none"]
    /\ sub_close_code = [w \in Subs |-> 0]
    /\ subscriber_connections = [m \in Meetings |-> <<>>]
    /\ subscribers = [m \in Meetings |-> 0]
    /\ pubsub_channels = [m \in Meetings |-> FALSE]
    /\ inflight = <<>>
    /\ bc = NoBroadcast
    /\ received = [w \in Subs |-> <<>>]
    /\ delivered = [w \in Subs |-> <<>>]
    /\ published = 0
    /\ pub_targets = [n \in 1..MaxPublished |-> [size |-> 0, subs |-> {}]]
    /\ store_pc = [c \in Calls |-> "idle"]
    /\ store_key = [c \in Calls |-> ""]
    /\ store_result = [c \in Calls |-> "none"]
    /\ store_fault = [c \in Calls |-> FALSE]
    /\ store_after = [c \in Calls |-> {}]
    /\ transcripts = <<>>
    /\ relay = [s \in Sessions |-> "none"]
    /\ listener = [s \in Sessions |-> "none"]
    /\ transport = [s \in Sessions |-> "none"]
    /\ transcripts_received = [s \in Sessions |-> 0]
    /\ last_result = [s \in Sessions |-> "none"]
    /\ frames_sent = [s \in Sessions |-> 0]
    /\ message_count = [s \in Sessions |-> 0]
    /\ bytes_received = [s \in Sessions |-> 0]
    /\ last_text = [s \in Sessions |-> "none"]
    /\ is_finalizing = [s \in Sessions |-> FALSE]
    /\ bytes_sent = [s \in Sessions |-> 0]
    /\ upstream = [s \in Sessions |-> <<>>]
    /\ fin_pc = [s \in Sessions |-> "none"]
    /\ disconnect_calls = [s \in Sessions |-> 0]
    /\ pcm_calls = [s \in Sessions |-> 0]
    /\ pcm_result = [s \in Sessions |-> "none"]
    /\ bus_handlers = [t \in Topics |-> 0]
    /\ bus_channels = [t \in Topics |-> FALSE]
    /\ listen_task = "none"
    /\ tasks_created = 0
    /\ bus_inbox = <<>>
    /\ bus_arrived = 0
    /\ invoked = <<>>
    /\ bus_op = [n |-> 0, op |-> "none", topic |-> "none"]

\* ----------------------------------------------------- shared pure helpers
\* Bearer credential: the Authorization header first, the token query
\* parameter as fallback.
ExtractToken(header, query) ==
    IF header # "none" THEN header ELSE query

\* The four conditions of the handshake contract: device id non-empty,
\* declared source equal to the source of the connection key, sample rate
\* and channel count equal to the configured values.
HandshakeAcceptable(msg, key) ==
    /\ msg.type = "handshake"
    /\ msg.device_id # ""
    /\ msg.source = key[2]
    /\ msg.sample_rate = INGEST_SAMPLE_RATE
    /\ msg.channels = INGEST_CHANNELS

\* What the receive of the first frame ended in: the event if no JSON
\* object arrived, "other" for an object whose type is not "handshake",
\* and for a handshake whether the handler's field checks pass.
FirstFrame(ev, msg, valid) ==
    IF ev # "message" THEN ev
    ELSE IF msg.type # "handshake" THEN "other"
    ELSE IF valid THEN "valid" ELSE "invalid"

\* ------------------------------------------------- ws_manager (connection.py)
\* the disconnect that forgets every ingest connection of the meeting
DisconnectIngestOfMeeting(ic, cm, ws) ==
    [k \in DOMAIN ic |-> IF k[1] = cm[ws].meeting THEN 0 ELSE ic[k]]

\* ConnectionManager.disconnect, ingest branch: the (meeting_id, source)
\* entry is deleted only if it still holds this websocket.
DisconnectIngest(ic, cm, ws) ==
    LET k == <<cm[ws].meeting, cm[ws].source>> IN
    IF ic[k] = ws THEN [ic EXCEPT ![k] = 0] ELSE ic

\* Websocket objects are numbered in the order in which their connections
\* arrive.
Arrived(s) == \A t \in Sessions : t < s => pc[t] # "idle"

\* ------------------------------- routers/ws.py websocket_ingest (mounted)
\* safe_close(code, reason): idempotent close of the connection's websocket.
SafeClose(s, code) ==
    /\ is_closing' = [is_closing EXCEPT ![s] = TRUE]
    /\ IF /\ ~is_closing[s]
          /\ client_state[s] # "DISCONNECTED"
          /\ app_state[s] # "DISCONNECTED"
       THEN /\ app_state' = [app_state EXCEPT ![s] = "DISCONNECTED"]
            /\ close_code' = [close_code EXCEPT ![s] = code]
       ELSE UNCHANGED <<app_state, close_code>>

\* Steps 1-3: credential extraction, decode_jwt_token, accept.
IngestConnect(s, m, src, header, query) ==
    /\ pc[s] = "idle"
    /\ Arrived(s)
    /\ connection_key' = [connection_key EXCEPT ![s] = <<m, src>>]
    /\ IF ExtractToken(header, query) # "good"
       THEN /\ SafeClose(s, 1008)
            /\ pc' = [pc EXCEPT ![s] = "finally"]
            /\ UNCHANGED <<client_state, authed>>
       ELSE /\ authed' = [authed EXCEPT ![s] = TRUE]
            /\ app_state' = [app_state EXCEPT ![s] = "CONNECTED"]
            /\ client_state' = [client_state EXCEPT ![s] = "CONNECTED"]
            /\ pc' = [pc EXCEPT ![s] = "await_handshake"]
            /\ UNCHANGED <<is_closing, close_code>>
    /\ UNCHANGED <<acks, errors_sent, hs_ok, first_frame, handshake_source, wsVars>>
    /\ UNCHANGED exceptWs

\* The field checks of step 4, in the order of the code.
WsHandshakeValid(msg) ==
    /\ msg.type = "handshake"
    /\ msg.device_id # ""
    /\ msg.source \in {"mic", "sys"}
    /\ msg.sample_rate = INGEST_SAMPLE_RATE
    /\ msg.channels = INGEST_CHANNELS

\* The finally block with client = None: the registry entry of the key is
\* popped, ws_manager.disconnect(websocket) runs, the segment counter of
\* the meeting is popped.
WsTeardown(s, reg, ic, cm) ==
    LET key == connection_key[s] IN
    /\ ingest_registry' = [reg EXCEPT ![key] = NoEntry]
    /\ IF cm[s].kind = "none"
       THEN /\ ingest_connections' = ic
            /\ connection_meetings' = cm
       ELSE /\ ingest_connections' = DisconnectIngest(ic, cm, s)
            /\ connection_meetings' = [cm EXCEPT ![s] = NoInfo]
    /\ meeting_segments' = [meeting_segments EXCEPT ![key[1]] = -1]

\* "Register new connection" and the send of the handshake-ack (step 5, second
\* half, and step 6).  A send that raises goes through the except clause
\* into the finally block without suspending.
WsRegister(s, source, sendOk) ==
    LET key == connection_key[s]
        reg == [ingest_registry EXCEPT ![key] =
                   [websocket |-> s, source |-> source, is_closing |-> FALSE]]
        ic == [ingest_connections EXCEPT ![key] = s]
        cm == [connection_meetings EXCEPT ![s] =
                   [kind |-> "tuple", meeting |-> key[1], source |-> key[2]]]
    IN  IF sendOk
        THEN /\ ingest_registry' = reg
             /\ ingest_connections' = ic
             /\ connection_meetings' = cm
             /\ acks' = [acks EXCEPT ![s] = @ + 1]
             /\ pc' = [pc EXCEPT ![s] = "sending_ack"]
             /\ UNCHANGED meeting_segments
        ELSE /\ WsTeardown(s, reg, ic, cm)
             /\ pc' = [pc EXCEPT ![s] = "done"]
             /\ UNCHANGED acks

\* a replacement that leaves the old websocket open
CloseReplacedSkipped(old_ws) == UNCHANGED <<app_state, close_code>>

\* await old_ws.close(code=1012, reason="replaced"); a websocket the
\* application has closed already raises, which is logged.
CloseReplaced(old_ws) ==
    IF app_state[old_ws] # "DISCONNECTED"
    THEN /\ app_state' = [app_state EXCEPT ![old_ws] = "DISCONNECTED"]
         /\ close_code' = [close_code EXCEPT ![old_ws] = 1012]
    ELSE UNCHANGED <<app_state, close_code>>

\* Step 4 and the first half of step 5: the first frame, its validation and
\* the close of the connection registered for the key.
IngestHandshake(s, ev, msg, sendOk) ==
    /\ pc[s] = "await_handshake"
    /\ hs_ok' = [hs_ok EXCEPT ![s] =
                    ev = "message" /\ HandshakeAcceptable(msg, connection_key[s])]
    /\ first_frame' = [first_frame EXCEPT ![s] =
                          FirstFrame(ev, msg, WsHandshakeValid(msg))]
    \* handshake_source is read again only by a handler that goes on
    /\ handshake_source' = [handshake_source EXCEPT ![s] =
           IF ev = "message" /\ WsHandshakeValid(msg) THEN msg.source ELSE @]
    /\ UNCHANGED <<connection_key, authed, errors_sent>>
    /\ UNCHANGED exceptWs
    /\ IF ev = "disconnect"
       THEN \* WebSocketDisconnect from receive_json, caught as Exception
            /\ client_state' = [client_state EXCEPT ![s] = "DISCONNECTED"]
            /\ is_closing' = [is_closing EXCEPT ![s] = TRUE]
            /\ pc' = [pc EXCEPT ![s] = "finally"]
            /\ UNCHANGED <<app_state, close_code, acks, wsVars>>
       ELSE IF ev = "nondict"
       THEN \* msg.get raises AttributeError: the outer except, no close
            /\ pc' = [pc EXCEPT ![s] = "finally"]
            /\ UNCHANGED <<client_state, is_closing, app_state, close_code,
                           acks, wsVars>>
       ELSE IF ev \in {"timeout", "garbage"} \/ ~WsHandshakeValid(msg)
       THEN /\ SafeClose(s, 1002)
            /\ pc' = [pc EXCEPT ![s] = "finally"]
            /\ UNCHANGED <<client_state, acks, wsVars>>
       ELSE LET old == ingest_registry[connection_key[s]] IN
            IF old.websocket # 0 /\ ~old.is_closing
               /\ client_state[old.websocket] # "DISCONNECTED"
            THEN \* old_entry["is_closing"] = True; await old_ws.close(1012)
                 /\ ingest_registry' =
                      [ingest_registry EXCEPT ![connection_key[s]].is_closing = TRUE]
                 /\ CloseReplaced(old.websocket)
                 /\ pc' = [pc EXCEPT ![s] = "closing_old"]
                 /\ UNCHANGED <<client_state, is_closing, acks,
                                ingest_connections, connection_meetings,
                                meeting_segments>>
            ELSE /\ WsRegister(s, msg.source, sendOk)
                 /\ UNCHANGED <<client_state, is_closing, app_state, close_code>>

\* Resumes after await old_ws.close(...): registers and sends the ack.
IngestRegister(s, sendOk) ==
    /\ pc[s] = "closing_old"
    /\ WsRegister(s, handshake_source[s], sendOk)
    /\ UNCHANGED <<connection_key, is_closing, app_state, client_state,
                   close_code, errors_sent, hs_ok, first_frame, handshake_source, authed>>
    /\ UNCHANGED exceptWs

\* Resumes after the ack was sent: the segment counter is initialised, the
\* callbacks are defined, and DeepgramLiveClient(..., language=hs.language,
\* ...) raises NameError (no name hs exists); the except clause logs it and
\* the finally block runs, with client still None.  The handler returns
\* without sending a close.
IngestAfterAck(s) ==
    /\ pc[s] = "sending_ack"
    /\ WsTeardown(s, ingest_registry, ingest_connections, connection_meetings)
    /\ pc' = [pc EXCEPT ![s] = "done"]
    /\ app_state' = [app_state EXCEPT ![s] = "DISCONNECTED"]
    /\ UNCHANGED <<connection_key, is_closing, client_state, close_code, acks,
                   errors_sent, hs_ok, first_frame, handshake_source, authed>>
    /\ UNCHANGED exceptWs

\* The finally block after a return from the authentication or handshake
\* steps.
IngestFinally(s) ==
    /\ pc[s] = "finally"
    /\ WsTeardown(s, ingest_registry, ingest_connections, connection_meetings)
    /\ pc' = [pc EXCEPT ![s] = "done"]
    /\ app_state' = [app_state EXCEPT ![s] = "DISCONNECTED"]
    /\ UNCHANGED <<connection_key, is_closing, client_state, close_code, acks,
                   errors_sent, hs_ok, first_frame, handshake_source, authed>>
    /\ UNCHANGED exceptWs

\* What the receive of the first frame can end in without a JSON object:
\* the 6 s timeout, a frame that is not JSON, the client's disconnect, JSON
\* that is no object.
ReceiveFailures == {"timeout", "garbage", "disconnect", "nondict"}

Next ==
    \/ \E s \in Sessions, m \in Meetings, src \in Sources,
          header \in Credentials, query \in Credentials :
            IngestConnect(s, m, src, header, query)
    \/ \E s \in Sessions, msg \in HandshakeMsgs, sendOk \in BOOLEAN :
            IngestHandshake(s, "message", msg, sendOk)
    \/ \E s \in Sessions, ev \in ReceiveFailures :
            IngestHandshake(s, ev, NoMsg, TRUE)
    \/ \E s \in Sessions, sendOk \in BOOLEAN : IngestRegister(s, sendOk)
    \/ \E s \in Sessions : IngestAfterAck(s)
    \/ \E s \in Sessions : IngestFinally(s)

Spec == Init /\ [][Next]_vars

\* ------------------------------------------------ claims on the mounted endpoint
\* C1: every registration onto an occupied key closes the session that was
\* registered for it, so that two sessions of one key are never live at the
\* same time.
C1_ReplaceClosesPrevious ==
    [][\A k \in Keys :
          LET old == ingest_registry[k].websocket
              new == ingest_registry'[k].websocket
          IN  (old # 0 /\ new # 0 /\ new # old)
              => ~(pc'[old] = "sending_ack" /\ app_state'[old] = "CONNECTED")]_vars

\* C5: the teardown of a session that was superseded (closed with 1012 by a
\* newer session of its key) leaves the registry entry of the newer session
\* in place.
C5_SupersededTeardownKeepsNewer ==
    [][\A s \in Sessions :
          LET e == ingest_registry[connection_key[s]] IN
          (/\ pc[s] = "sending_ack" /\ pc'[s] = "done"
           /\ close_code[s] = 1012
           /\ e.websocket # 0 /\ e.websocket # s)
          => ingest_registry'[connection_key[s]] = e]_vars

\* C7: a connection whose credential is missing or fails verification is
\* closed with 1008, is never accepted, acknowledged or registered, and its
\* attempt changes no registry entry.
C7_AuthFailureHasNoSideEffect ==
    [][\A s \in Sessions :
          (pc'[s] \in {"finally", "done"} /\ ~authed'[s])
          => /\ close_code'[s] = 1008
             /\ acks'[s] = 0
             /\ client_state'[s] = "CONNECTING"
             /\ (pc[s] = "finally" /\ pc'[s] = "done" =>
                   /\ ingest_registry' = ingest_registry
                   /\ ingest_connections' = ingest_connections)]_vars

\* C8: a handshake is acknowledged only if it meets the four conditions
\* (device id, declared source equal to the key's, sample rate, channels);
\* one that meets them is not closed with the protocol-error code 1002, and
\* a connection closed with 1002 got no ack.
C8_AckIffHandshakeAcceptable ==
    \A s \in Sessions :
        /\ acks[s] > 0 => hs_ok[s]
        /\ hs_ok[s] => close_code[s] # 1002
        /\ close_code[s] = 1002 => acks[s] = 0

\* C22: a connection whose first receive timed out, or whose first message
\* is not a message of type handshake, has after teardown been closed with
\* the protocol-error code 1002, was sent no handshake-ack, has no relay
\* and is not registered.
C22_NoHandshakeIsProtocolError ==
    \A s \in Sessions :
        (pc[s] = "done"
         /\ first_frame[s] \in {"timeout", "garbage", "nondict", "other"})
        => /\ close_code[s] = 1002
           /\ acks[s] = 0
           /\ relay[s] = "none"
           /\ ingest_registry[connection_key[s]].websocket # s
           /\ ingest_connections[connection_key[s]] # s

\* C26: a step of the session of (meeting, mic), be it its registration,
\* the replacement of the session registered before it or its teardown,
\* leaves a session of (meeting, sys) as it is, and the reverse: the other
\* session is not closed and its entries in ingest_registry and in
\* ws_manager stay in place.
C26_SourcesIndependent ==
    [][\A s \in Sessions, t \in Sessions :
          (/\ s # t
           /\ pc'[s] # pc[s]
           /\ pc[t] # "idle"
           /\ connection_key'[s][1] = connection_key[t][1]
           /\ connection_key'[s][2] # connection_key[t][2])
          => LET k == connection_key[t] IN
             /\ app_state'[t] = app_state[t]
             /\ close_code'[t] = close_code[t]
             /\ ingest_registry'[k] = ingest_registry[k]
             /\ ingest_connections'[k] = ingest_connections[k]
             /\ connection_meetings'[t] = connection_meetings[t]]_vars

\* a session of (m1, sys) is registered and open after a session of
\* (m1, mic) was registered, replaced by a newer one and torn down
C26_Witness ==
    \E s \in Sessions, t \in Sessions :
        /\ connection_key[s] = <<"m1", "mic">>
        /\ connection_key[t] = <<"m1", "sys">>
        /\ pc[s] = "done" /\ acks[s] = 1 /\ close_code[s] = 1012
        /\ pc[t] = "sending_ack" /\ app_state[t] = "CONNECTED"
        /\ ingest_registry[<<"m1", "sys">>].websocket = t
        /\ ingest_connections[<<"m1", "sys">>] = t

\* the session registered for the key of s, if it is live: its websocket is
\* open on both sides
LiveRegistered(s) ==
    LET old == ingest_registry[connection_key[s]].websocket IN
    IF old # 0 /\ old # s /\ app_state[old] = "CONNECTED"
       /\ client_state[old] = "CONNECTED"
    THEN old ELSE 0

C39_BookkeepingMapsAgree ==
    (\A s \in Sessions : pc[s] \notin {"closing_old", "finally"})
    => \A k \in Keys : ingest_registry[k].websocket = ingest_connections[k]

\* ------------------------- websocket/ingest.py ConnectionRateLimiter
\* "Clean old entries": popleft while the oldest timestamp is older than
\* the window.
RECURSIVE PruneOld(_, _)
PruneOld(timestamps, t) ==
    IF timestamps # <<>> /\ Head(timestamps) < t - RATE_LIMIT_WINDOW
    THEN PruneOld(Tail(timestamps), t)
    ELSE timestamps

\* the limit check with > in place of >=
RateLimitedOffByOne(timestamps) == Len(timestamps) > RATE_LIMIT_MAX_ATTEMPTS

\* "Check if rate limit exceeded"
RateLimited(timestamps) == Len(timestamps) >= RATE_LIMIT_MAX_ATTEMPTS

\* deque(maxlen=...).append: a full deque drops its oldest element
DequeAppend(timestamps, t) ==
    IF Len(timestamps) >= RateDequeMaxLen
    THEN Append(Tail(timestamps), t)
    ELSE Append(timestamps, t)

\* check_rate_limit(meeting_id, source) at time now: its return value ...
RateLimitAllows(k) == ~RateLimited(PruneOld(rate_limit_storage[k], now))
\* the deque left behind if a rejected attempt were recorded as well
RateLimitStorageRecordsAll(k) ==
    DequeAppend(PruneOld(rate_limit_storage[k], now), now)
\* ... and the deque it leaves behind
RateLimitStorageAfter(k) ==
    LET pruned == PruneOld(rate_limit_storage[k], now) IN
    IF RateLimited(pruned) THEN pruned ELSE DequeAppend(pruned, now)

\* One connection attempt for key k.
CheckRateLimit(k) ==
    /\ Len(admitted[k]) < MaxHistory
    /\ rate_limit_storage' = [rate_limit_storage EXCEPT ![k] = RateLimitStorageAfter(k)]
    /\ IF RateLimitAllows(k)
       THEN /\ admitted' = [admitted EXCEPT ![k] = Append(@, now)]
            /\ UNCHANGED rejected_at
       ELSE /\ rejected_at' = [rejected_at EXCEPT ![k] = now]
            /\ UNCHANGED admitted
    /\ UNCHANGED <<now, sessVars, wsVars, subVars, storeVars, newVars>>

\* Time passes.
Tick ==
    /\ now + TickStep <= MaxTime
    /\ now' = now + TickStep
    /\ UNCHANGED <<rate_limit_storage, admitted, rejected_at, sessVars, wsVars,
                   subVars, storeVars, newVars>>

NextRate ==
    \/ \E k \in Keys : CheckRateLimit(k)
    \/ Tick

SpecRate == Init /\ [][NextRate]_vars

\* the admissions of key k with a timestamp in the closed interval [lo, hi]
AdmittedIn(hist, lo, hi) ==
    Cardinality({i \in DOMAIN hist : lo <= hist[i] /\ hist[i] <= hi})

\* C4: for every key, the attempts admitted within any window of
\* RATE_LIMIT_WINDOW seconds never exceed RATE_LIMIT_MAX_ATTEMPTS, and an
\* attempt made while RATE_LIMIT_MAX_ATTEMPTS admitted timestamps lie inside
\* the window is rejected (it is not admitted).
C4_RollingWindowLimit ==
    /\ [](\A k \in Keys : \A t \in 0..MaxTime :
            AdmittedIn(admitted[k], t, t + RATE_LIMIT_WINDOW)
                <= RATE_LIMIT_MAX_ATTEMPTS)
    /\ [][\A k \in Keys :
            AdmittedIn(admitted[k], now - RATE_LIMIT_WINDOW, now)
                >= RATE_LIMIT_MAX_ATTEMPTS
            => admitted'[k] = admitted[k]]_vars

\* The window has rolled: a key was rejected with the window full, and
\* later admitted more attempts than one window holds.
C4_Witness ==
    \E k \in Keys :
        /\ rejected_at[k] >= 0
        /\ Len(admitted[k]) > RATE_LIMIT_MAX_ATTEMPTS
        /\ AdmittedIn(admitted[k], now - RATE_LIMIT_WINDOW, now)
               = RATE_LIMIT_MAX_ATTEMPTS

\* the timestamps held in a deque
Stamps(timestamps) == {timestamps[i] : i \in DOMAIN timestamps}

\* C40: a check that admits nothing for its key records no timestamp (the
\* deque of the key only loses expired timestamps), a check changes the
\* deque of no other key, and an attempt is rejected only while the oldest
\* timestamp still held for the key is no older than RATE_LIMIT_WINDOW:
\* once the window has passed since that timestamp, whatever number of
\* attempts was rejected in between, the next attempt is admitted.
C40_RejectedNotRecorded ==
    [][\A k \in Keys :
          /\ admitted'[k] = admitted[k] =>
                /\ Stamps(rate_limit_storage'[k])
                       \subseteq Stamps(rate_limit_storage[k])
                /\ Len(rate_limit_storage'[k]) <= Len(rate_limit_storage[k])
          /\ admitted'[k] # admitted[k] =>
                /\ rate_limit_storage'[k] # <<>>
                /\ rate_limit_storage'[k][Len(rate_limit_storage'[k])] = now
                /\ \A j \in Keys \ {k} :
                      rate_limit_storage'[j] = rate_limit_storage[j]
          /\ rejected_at'[k] # rejected_at[k] =>
                /\ rate_limit_storage[k] # <<>>
                /\ now - Head(rate_limit_storage[k]) <= RATE_LIMIT_WINDOW
                /\ \A j \in Keys \ {k} :
                      rate_limit_storage'[j] = rate_limit_storage[j]]_vars

\* a key was rejected with its window full, rejected again later, and
\* admitted once the window had passed since its oldest timestamp
C40_Witness ==
    \E k \in Keys :
        /\ Len(admitted[k]) = RATE_LIMIT_MAX_ATTEMPTS + 1
        /\ rejected_at[k] > admitted[k][1]
        /\ admitted[k][RATE_LIMIT_MAX_ATTEMPTS + 1] > rejected_at[k]
        /\ admitted[k][RATE_LIMIT_MAX_ATTEMPTS + 1] - admitted[k][1]
               > RATE_LIMIT_WINDOW

\* C12: the step in which an ingest connection attempt leaves the connecting
\* position consults the rate limiter with the (meeting_id, source) of the
\* connection (the deque of the key becomes what check_rate_limit leaves).
\* An attempt the limiter admits is recorded; one it rejects is closed with
\* 1013, is not authenticated, accepted or acknowledged, changes no registry
\* entry and closes no other session; and a connection closed with 1013 was
\* never accepted.
C12_RateLimiterGuardsAccept ==
    /\ [][\A s \in Sessions : (pc[s] = "idle" /\ pc'[s] # "idle") =>
            LET k == connection_key'[s] IN
            /\ rate_limit_storage'[k] = RateLimitStorageAfter(k)
            /\ IF RateLimitAllows(k)
               THEN admitted'[k] = Append(admitted[k], now)
               ELSE /\ close_code'[s] = 1013
                    /\ client_state'[s] = "CONNECTING"
                    /\ ~authed'[s] /\ acks'[s] = 0
                    /\ ingest_registry' = ingest_registry
                    /\ ingest_connections' = ingest_connections
                    /\ \A t \in Sessions \ {s} :
                          /\ app_state'[t] = app_state[t]
                          /\ close_code'[t] = close_code[t]]_vars
    /\ [](\A s \in Sessions : close_code[s] = 1013 =>
            /\ client_state[s] = "CONNECTING"
            /\ ~authed[s] /\ acks[s] = 0)

\* ---------------- routers/ws.py websocket_subscriber, redis_bus, ws_manager
\* received[] holds the frames of broadcast_to_meeting only; the status
\* frame and the keep-alive pings, whose send errors are swallowed, are left
\* out.
RegisteredSubs(m) ==
    {subscriber_connections[m][i] : i \in DOMAIN subscriber_connections[m]}
\* the websockets in a list
Members(list) == {list[i] : i \in DOMAIN list}

\* list.remove(websocket)
RemoveFrom(list, ws) == SelectSeq(list, LAMBDA x : x # ws)

\* the limit check of step 3 with > in place of >=
LimitReachedOffByOne(current) == current > MAX_WS_CLIENTS_PER_MEETING

\* current >= settings.MAX_WS_CLIENTS_PER_MEETING
LimitReached(current) == current >= MAX_WS_CLIENTS_PER_MEETING

\* json.dumps of the replacement of a message that is too large
TruncatedText(type, meeting_id) ==
    "{\"type\": \"" \o type \o "\", \"meeting_id\": \"" \o meeting_id
    \o "\", \"status\": \"truncated\", \"message\": \"payload too large\"}"

\* the size check of broadcast_to_meeting with >= in place of >
BroadcastTextOffByOne(meeting_id, msg) ==
    LET type == IF msg.type = "none" THEN "status" ELSE msg.type IN
    IF msg.size >= MAX_TEXT_MESSAGE_SIZE
    THEN [type |-> type, meeting_id |-> meeting_id, segment_no |-> 0,
          status |-> "truncated", size |-> Len(TruncatedText(type, meeting_id))]
    ELSE msg

\* broadcast_to_meeting: the text sent for a message.  A text longer than
\* MAX_TEXT_MESSAGE_SIZE is replaced by the text of a message that has the
\* type of the original ("status" if that has none), the meeting id of the
\* broadcast, and the status "truncated".
BroadcastText(meeting_id, msg) ==
    LET type == IF msg.type = "none" THEN "status" ELSE msg.type IN
    IF msg.size > MAX_TEXT_MESSAGE_SIZE
    THEN [type |-> type, meeting_id |-> meeting_id, segment_no |-> 0,
          status |-> "truncated", size |-> Len(TruncatedText(type, meeting_id))]
    ELSE msg

SubArrived(w) == \A v \in Subs : v < w => sub_pc[v] # "idle"
Started == redis \in {"connected", "none"}

\* publish and subscribe without their check of the connection
BusUsableUnchecked == redis # "exit"
\* "if not self.redis: ... return" of publish and of subscribe
BusUsable == redis = "connected"

\* main.py startup: redis_bus.connect().  A failed connection stops the
\* start-up when REDIS_REQUIRED, and leaves redis = None otherwise.
BusConnect(ok, required) ==
    /\ redis = "unset"
    /\ redis' = IF ok THEN "connected" ELSE IF required THEN "exit" ELSE "none"
    /\ UNCHANGED <<sub_pc, sub_meeting, sub_close_code, subscriber_connections,
                   subscribers, pubsub_channels, inflight, bc, received, delivered,
                   published, pub_targets>>
    /\ UNCHANGED <<sessVars, wsVars, rateVars, storeVars, newVars>>

\* Steps 1-2: decode_jwt_token, then close(1008) or accept.  After the
\* close the finally block finds no connection_meetings entry and no
\* transcript_topic (the NameError is swallowed).
SubConnect(w, m, token) ==
    /\ Started
    /\ sub_pc[w] = "idle"
    /\ SubArrived(w)
    /\ sub_meeting' = [sub_meeting EXCEPT ![w] = m]
    /\ IF token # "good"
       THEN /\ sub_close_code' = [sub_close_code EXCEPT ![w] = 1008]
            /\ sub_pc' = [sub_pc EXCEPT ![w] = "done"]
       ELSE /\ sub_pc' = [sub_pc EXCEPT ![w] = "accepted"]
            /\ UNCHANGED sub_close_code
    /\ UNCHANGED <<redis, subscriber_connections, subscribers, pubsub_channels,
                   inflight, bc, received, delivered, published, pub_targets>>
    /\ UNCHANGED <<sessVars, wsVars, rateVars, storeVars, newVars>>

\* Step 3 and "Register connection", up to the await of _send_status.
SubRegister(w) ==
    LET m == sub_meeting[w] IN
    /\ sub_pc[w] = "accepted"
    /\ IF LimitReached(Len(subscriber_connections[m]))
       THEN \* send_error_and_close(websocket, 1013, ...); return; finally
            /\ sub_close_code' = [sub_close_code EXCEPT ![w] = 1013]
            /\ sub_pc' = [sub_pc EXCEPT ![w] = "done"]
            /\ UNCHANGED <<subscriber_connections, connection_meetings>>
       ELSE /\ subscriber_connections' =
                  [subscriber_connections EXCEPT ![m] = Append(@, w)]
            /\ connection_meetings' = [connection_meetings EXCEPT ![w] =
                  [kind |-> "str", meeting |-> m, source |-> "none"]]
            /\ sub_pc' = [sub_pc EXCEPT ![w] = "sending_status"]
            /\ UNCHANGED sub_close_code
    /\ UNCHANGED <<redis, sub_meeting, subscribers, pubsub_channels, inflight,
                   bc, received, delivered, published, pub_targets>>
    /\ UNCHANGED <<sessVars, ingest_registry, ingest_connections,
                   meeting_segments, rateVars, storeVars, newVars>>

\* redis_bus.subscribe(transcript_topic, handle_redis_message): without a
\* Redis connection nothing is recorded; with one, the handler replaces the
\* handler of the topic and the pubsub connection subscribes to it.
SubSubscribe(w) ==
    LET m == sub_meeting[w] IN
    /\ sub_pc[w] = "sending_status"
    /\ IF BusUsable
       THEN /\ subscribers' = [subscribers EXCEPT ![m] = w]
            /\ pubsub_channels' = [pubsub_channels EXCEPT ![m] = TRUE]
       ELSE UNCHANGED <<subscribers, pubsub_channels>>
    /\ sub_pc' = [sub_pc EXCEPT ![w] = "sub_loop"]
    /\ UNCHANGED <<redis, sub_meeting, sub_close_code, subscriber_connections, inflight, bc,
                   received, delivered, published, pub_targets>>
    /\ UNCHANGED <<sessVars, wsVars, rateVars, storeVars, newVars>>

\* ConnectionManager.disconnect(websocket) for a subscriber: without a
\* connection_meetings entry it returns at once; otherwise the websocket is
\* removed from the list of its meeting and its entry is deleted.
DisconnectSubs(conns, cm, ws) ==
    IF cm[ws].kind = "str"
    THEN [conns EXCEPT ![cm[ws].meeting] = RemoveFrom(@, ws)]
    ELSE conns
ForgetSocket(cm, ws) == [cm EXCEPT ![ws] = NoInfo]

\* The list object a running broadcast iterates is dropped from the
\* dictionary when it becomes empty: websockets registered later are in a
\* new list, which the iteration does not see.
StaleAfter(conns) ==
    IF bc.active /\ conns[bc.meeting] = <<>>
    THEN [bc EXCEPT !.stale = TRUE]
    ELSE bc

\* The keep-alive loop ends (WebSocketDisconnect or a failed send) and the
\* finally block runs: ws_manager.disconnect(websocket), then
\* redis_bus.unsubscribe(transcript_topic), which deletes the handler of
\* the topic and unsubscribes the pubsub connection from it.
SubDisconnect(w) ==
    LET m == sub_meeting[w]
        conns == DisconnectSubs(subscriber_connections, connection_meetings, w)
    IN
    /\ sub_pc[w] = "sub_loop"
    /\ subscriber_connections' = conns
    /\ connection_meetings' = ForgetSocket(connection_meetings, w)
    /\ bc' = StaleAfter(conns)
    /\ subscribers' = [subscribers EXCEPT ![m] = 0]
    /\ pubsub_channels' = [pubsub_channels EXCEPT ![m] = FALSE]
    /\ sub_pc' = [sub_pc EXCEPT ![w] = "done"]
    /\ UNCHANGED <<redis, sub_meeting, sub_close_code, inflight, received, delivered,
                   published, pub_targets>>
    /\ UNCHANGED <<sessVars, ingest_registry, ingest_connections,
                   meeting_segments, rateVars, storeVars, newVars>>

\* redis_bus.publish(topic, message) of the next final segment of meeting m:
\* a no-op without a Redis connection; a failed publish raises and delivers
\* nothing; otherwise Redis hands the message to the pubsub connection if
\* that is subscribed to the topic.
PublishWithin(limit, m, size, pubOk) ==
    /\ Started
    /\ published < limit
    /\ IF BusUsable /\ pubOk
       THEN /\ published' = published + 1
            /\ pub_targets' = [pub_targets EXCEPT ![published + 1] =
                   [size |-> size,
                    subs |-> {w \in RegisteredSubs(m) : sub_pc[w] = "sub_loop"}]]
            /\ inflight' = IF pubsub_channels[m]
                           THEN Append(inflight,
                                       [meeting |-> m,
                                        msg |-> Payload(m, published + 1, size)])
                           ELSE inflight
       ELSE UNCHANGED <<published, pub_targets, inflight>>
    /\ UNCHANGED <<redis, sub_pc, sub_meeting, sub_close_code,
                   subscriber_connections, subscribers, pubsub_channels, bc,
                   received, delivered>>
    /\ UNCHANGED <<sessVars, wsVars, rateVars, storeVars, newVars>>

Publish(m, size, pubOk) == PublishWithin(MaxMsgs, m, size, pubOk)

\* The dead connections of a finished broadcast are disconnected in turn.
RECURSIVE DisconnectAll(_, _, _)
DisconnectAll(conns, cm, dead) ==
    IF dead = {} THEN conns
    ELSE LET ws == CHOOSE x \in dead : TRUE IN
         DisconnectAll(DisconnectSubs(conns, cm, ws), cm, dead \ {ws})

\* One turn of the loop "for ws in conns" of broadcast call b: the send to
\* the element the list iterator is at (a failed send puts the websocket on
\* the dead list), or, past the end of the list, the clean-up of the dead
\* connections and the return to _listen_loop.
BroadcastSend(b, sendOk) ==
    LET conns == subscriber_connections[b.meeting] IN
    IF ~b.stale /\ b.i <= Len(conns)
    THEN LET ws == conns[b.i] IN
         /\ received' = IF sendOk
                        THEN [received EXCEPT ![ws] = Append(@, b.msg)]
                        ELSE received
         /\ delivered' = IF sendOk
                         THEN [delivered EXCEPT ![ws] =
                                  Append(@, b.message.segment_no)]
                         ELSE delivered
         /\ bc' = [b EXCEPT !.i = @ + 1,
                            !.dead = IF sendOk THEN @ ELSE @ \cup {ws},
                            !.reached = IF sendOk THEN @ \cup {ws} ELSE @]
         /\ UNCHANGED <<subscriber_connections, connection_meetings>>
    ELSE /\ subscriber_connections' =
               DisconnectAll(subscriber_connections, connection_meetings, b.dead)
         /\ connection_meetings' =
               [ws \in Sockets |-> IF ws \in b.dead THEN NoInfo
                                   ELSE connection_meetings[ws]]
         /\ bc' = NoBroadcast
         /\ UNCHANGED <<received, delivered>>

\* _listen_loop taking the newest message first
ListenNewestFirst(queue) ==
    [head |-> queue[Len(queue)], rest |-> SubSeq(queue, 1, Len(queue) - 1)]
\* "async for message in self.pubsub.listen()": the oldest message first
ListenNext(queue) == [head |-> Head(queue), rest |-> Tail(queue)]

\* _listen_loop reads the next message and calls the handler of its topic,
\* if there is one: handle_redis_message -> broadcast_to_meeting, which
\* returns at once when the meeting has no subscriber and otherwise runs
\* up to its first send.
ListenDispatch(sendOk) ==
    /\ inflight # <<>>
    /\ ~bc.active
    /\ inflight' = ListenNext(inflight).rest
    /\ LET m == ListenNext(inflight).head.meeting
           msg == ListenNext(inflight).head.msg
       IN  IF subscribers[m] = 0 \/ subscriber_connections[m] = <<>>
           THEN UNCHANGED <<bc, received, delivered, subscriber_connections,
                            connection_meetings>>
           ELSE BroadcastSend([active |-> TRUE, meeting |-> m,
                               message |-> msg,
                               msg |-> BroadcastText(m, msg), i |-> 1,
                               dead |-> {}, stale |-> FALSE,
                               targets |-> RegisteredSubs(m),
                               reached |-> {}], sendOk)
    /\ UNCHANGED <<redis, sub_pc, sub_meeting, sub_close_code, subscribers,
                   pubsub_channels, published, pub_targets>>
    /\ UNCHANGED <<sessVars, ingest_registry, ingest_connections,
                   meeting_segments, rateVars, storeVars, newVars>>

\* broadcast_to_meeting resumes after a send.
BroadcastStep(sendOk) ==
    /\ bc.active
    /\ BroadcastSend(bc, sendOk)
    /\ UNCHANGED <<redis, sub_pc, sub_meeting, sub_close_code, subscribers,
                   pubsub_channels, inflight, published, pub_targets>>
    /\ UNCHANGED <<sessVars, ingest_registry, ingest_connections,
                   meeting_segments, rateVars, storeVars, newVars>>

\* the sizes of the JSON texts published: at the limit and one above
TextSizes == {MAX_TEXT_MESSAGE_SIZE, MAX_TEXT_MESSAGE_SIZE + 1}

NextSub ==
    \/ \E ok \in BOOLEAN, required \in BOOLEAN : BusConnect(ok, required)
    \/ \E w \in Subs, m \in Meetings, token \in Credentials \ {"none"} :
          SubConnect(w, m, token)
    \/ \E w \in Subs : SubRegister(w)
    \/ \E w \in Subs : SubSubscribe(w)
    \/ \E w \in Subs : SubDisconnect(w)
    \/ \E m \in Meetings, size \in TextSizes, pubOk \in BOOLEAN :
          Publish(m, size, pubOk)
    \/ \E sendOk \in BOOLEAN : ListenDispatch(sendOk)
    \/ \E sendOk \in BOOLEAN : BroadcastStep(sendOk)

SpecSub == Init /\ [][NextSub]_vars

\* The same endpoint, bus and broadcast with more messages and fewer
\* subscriber connections, each with a valid token, and a broker that is
\* reachable at start-up.
OrderSubs == 101..(100 + NumOrderSubs)

NextOrder ==
    \/ \E required \in BOOLEAN : BusConnect(TRUE, required)
    \/ \E w \in OrderSubs, m \in Meetings : SubConnect(w, m, "good")
    \/ \E w \in OrderSubs : SubRegister(w)
    \/ \E w \in OrderSubs : SubSubscribe(w)
    \/ \E w \in OrderSubs : SubDisconnect(w)
    \/ \E m \in Meetings, size \in TextSizes, pubOk \in BOOLEAN :
          PublishWithin(MaxOrderMsgs, m, size, pubOk)
    \/ \E sendOk \in BOOLEAN : ListenDispatch(sendOk)
    \/ \E sendOk \in BOOLEAN : BroadcastStep(sendOk)

SpecOrder == Init /\ [][NextOrder]_vars

\* C25: the messages of a topic reach every subscriber in the order in
\* which they were published: of two frames sent to one subscriber, the
\* earlier is the frame of the message published earlier.
C25_PublishOrderPreserved ==
    \A w \in Subs : \A i \in DOMAIN delivered[w], j \in DOMAIN delivered[w] :
        i < j => delivered[w][i] < delivered[w][j]

\* a subscriber was sent the frames of two messages while another
\* subscriber of the meeting was sent only the second
C25_Witness ==
    \E w \in Subs, v \in Subs :
        /\ delivered[w] = <<1, 2>>
        /\ delivered[v] = <<2>>

\* no message is on its way to a subscriber
Quiescent == inflight = <<>> /\ ~bc.active

\* C2: a final segment (of a size that is not truncated) published to the
\* transcript topic of a meeting is delivered, as a transcript.final message
\* with the same fields, to every subscriber that was registered for the
\* meeting (and in its keep-alive loop) when it was published and still is
\* when the bus has gone quiet.
C2_PublishedReachesRegistered ==
    \A n \in 1..published : \A w \in pub_targets[n].subs :
        (/\ Quiescent
         /\ pub_targets[n].size <= MAX_TEXT_MESSAGE_SIZE
         /\ sub_pc[w] = "sub_loop"
         /\ w \in RegisteredSubs(sub_meeting[w]))
        => \E i \in DOMAIN received[w] :
              /\ received[w][i].type = "transcript.final"
              /\ received[w][i].segment_no = n
              /\ received[w][i].size = pub_targets[n].size

\* C10: the registered subscribers of a meeting never exceed
\* MAX_WS_CLIENTS_PER_MEETING; a connect that arrives when the count equals
\* the maximum is refused (closed with 1013) and not registered, and a
\* connect that arrives below the maximum, as after a disconnect, is
\* registered.
C10_SubscriberCap ==
    /\ [](\A m \in Meetings :
            Len(subscriber_connections[m]) <= MAX_WS_CLIENTS_PER_MEETING)
    /\ [][\A w \in Subs :
            (sub_pc[w] = "accepted" /\ sub_pc'[w] # "accepted") =>
            LET m == sub_meeting[w] IN
            IF Len(subscriber_connections[m]) = MAX_WS_CLIENTS_PER_MEETING
            THEN /\ subscriber_connections'[m] = subscriber_connections[m]
                 /\ sub_close_code'[w] = 1013
                 /\ sub_pc'[w] = "done"
            ELSE /\ subscriber_connections'[m] =
                        Append(subscriber_connections[m], w)
                 /\ sub_close_code'[w] = 0]_vars

\* A meeting was full, a subscriber was refused, a registered subscriber
\* disconnected and a later one was registered in its place.
C10_Witness ==
    \E m \in Meetings : \E refused, gone, later \in Subs :
        /\ sub_close_code[refused] = 1013
        /\ sub_pc[gone] = "done" /\ sub_close_code[gone] = 0
        /\ refused < later
        /\ later \in RegisteredSubs(m)
        /\ Len(subscriber_connections[m]) = MAX_WS_CLIENTS_PER_MEETING

\* C13: when a broadcast in which a send failed returns, the subscribers it
\* removes from the registry are exactly those whose send failed, and every
\* other subscriber that was registered for the meeting when the broadcast
\* began and still is when it returns has been sent the message and stays
\* registered.
C13_SendFailureEvictsOnlyFailed ==
    [][(bc.active /\ ~bc'.active /\ bc.dead # {}) =>
          LET m == bc.meeting IN
          /\ Members(subscriber_connections'[m]) = RegisteredSubs(m) \ bc.dead
          /\ \A w \in (bc.targets \ bc.dead) \cap RegisteredSubs(m) :
                /\ w \in bc.reached
                /\ w \in Members(subscriber_connections'[m])]_vars

\* how many times segment n was sent to subscriber w
TimesDelivered(w, n) ==
    Cardinality({i \in DOMAIN delivered[w] : delivered[w][i] = n})

\* C34: when a broadcast returns, whatever registrations and disconnects
\* ran while it was suspended in its sends, every subscriber that was
\* registered for the meeting when it began and still is when it returns
\* has been sent the message exactly once.
C34_BroadcastSkipsNobody ==
    [][(bc.active /\ ~bc'.active) =>
          \A w \in bc.targets \cap Members(subscriber_connections'[bc.meeting]) :
              TimesDelivered(w, bc.message.segment_no) = 1]_vars

\* the frame a step sent to subscriber w
SentTo(w) == received'[w][Len(received'[w])]

C32_SubscriptionOutlivesLeaver ==
    \A m \in Meetings :
        (/\ BusUsable
         /\ \E w \in RegisteredSubs(m) : sub_pc[w] = "sub_loop")
        => /\ subscribers[m] # 0
           /\ pubsub_channels[m]

\* ---------------------------- services/pubsub/redis_bus.py RedisBus
\* The bus on its own: callers that subscribe and unsubscribe handlers of
\* two topics, a broker that sends messages on the topics the pubsub
\* connection is subscribed to, and the listener task.
busRest == <<relay, frames_sent, message_count, bytes_received, last_text,
             relayVars, clientVars>>

\* "if not self._listen_task": the attribute holds the task object from the
\* first create_task on, whether the task is still running or not
ListenTaskMissing == listen_task = "none"

\* subscribe(channel, handler): nothing without a Redis connection;
\* otherwise the handler replaces that of the channel, the pubsub
\* connection subscribes, and the listener task is created if
\* self._listen_task is not set.
BusSubscribe(t, h) ==
    /\ Started
    /\ bus_op.n < MaxBusCalls
    /\ bus_op' = [n |-> bus_op.n + 1, op |-> "subscribe", topic |-> t]
    /\ IF BusUsable
       THEN /\ bus_handlers' = [bus_handlers EXCEPT ![t] = h]
            /\ bus_channels' = [bus_channels EXCEPT ![t] = TRUE]
            /\ IF ListenTaskMissing
               THEN /\ listen_task' = "running"
                    /\ tasks_created' = tasks_created + 1
               ELSE UNCHANGED <<listen_task, tasks_created>>
       ELSE UNCHANGED <<bus_handlers, bus_channels, listen_task,
                        tasks_created>>
    /\ UNCHANGED <<bus_inbox, bus_arrived, invoked>>
    /\ UNCHANGED <<sessVars, wsVars, rateVars, subVars, storeVars, busRest>>

\* unsubscribe(channel): the handler of the channel is deleted if there is
\* one, and the pubsub connection, if there is one, unsubscribes.
BusUnsubscribe(t) ==
    /\ Started
    /\ bus_op.n < MaxBusCalls
    /\ bus_op' = [n |-> bus_op.n + 1, op |-> "unsubscribe", topic |-> t]
    /\ bus_handlers' = [bus_handlers EXCEPT ![t] = 0]
    /\ bus_channels' = [bus_channels EXCEPT ![t] = FALSE]
    /\ UNCHANGED <<listen_task, tasks_created, bus_inbox, bus_arrived,
                   invoked>>
    /\ UNCHANGED <<sessVars, wsVars, rateVars, subVars, storeVars, busRest>>

\* The broker sends the pubsub connection a message on a topic it is
\* subscribed to; json tells whether its data is valid JSON.
BrokerSends(t, json) ==
    /\ bus_channels[t]
    /\ bus_arrived < MaxBusMsgs
    /\ bus_arrived' = bus_arrived + 1
    /\ bus_inbox' = Append(bus_inbox,
                           [id |-> bus_arrived + 1, topic |-> t, json |-> json])
    /\ UNCHANGED <<bus_handlers, bus_channels, listen_task, tasks_created,
                   invoked, bus_op>>
    /\ UNCHANGED <<sessVars, wsVars, rateVars, subVars, storeVars, busRest>>

\* One turn of "async for message in self.pubsub.listen()": json.loads of
\* the data, outside the try of the handler call, ends the loop when it
\* raises; otherwise the handler of the channel, if there is one, is
\* awaited, and an exception it raises is logged.
BusListen(raises) ==
    /\ listen_task = "running"
    /\ bus_inbox # <<>>
    /\ bus_inbox' = Tail(bus_inbox)
    /\ LET message == Head(bus_inbox) IN
       IF ~message.json
       THEN /\ listen_task' = "ended"
            /\ UNCHANGED invoked
       ELSE /\ invoked' = IF bus_handlers[message.topic] # 0
                          THEN Append(invoked,
                                      [id |-> message.id,
                                       topic |-> message.topic,
                                       handler |-> bus_handlers[message.topic],
                                       raised |-> raises])
                          ELSE invoked
            /\ UNCHANGED listen_task
    /\ UNCHANGED <<bus_handlers, bus_channels, tasks_created, bus_arrived,
                   bus_op>>
    /\ UNCHANGED <<sessVars, wsVars, rateVars, subVars, storeVars, busRest>>

NextBus ==
    \/ \E ok \in BOOLEAN, required \in BOOLEAN : BusConnect(ok, required)
    \/ \E t \in Topics, h \in Handlers : BusSubscribe(t, h)
    \/ \E t \in Topics : BusUnsubscribe(t)
    \/ \E t \in Topics, json \in BOOLEAN : BrokerSends(t, json)
    \/ \E raises \in BOOLEAN : BusListen(raises)

SpecBus == Init /\ [][NextBus]_vars

\* the listener takes a message from the inbox in this step
ListenerReads == bus_inbox # <<>> /\ bus_inbox' = Tail(bus_inbox)

\* C31: the step in which the listener reads a message of a topic that has
\* a handler invokes that handler once and no other, and a message of such
\* a topic never waits without a running listener to deliver it; no more
\* than one listener task is ever created; and an unsubscribe of a topic
\* that has no handler and no subscription changes nothing.
C31_OneInvocationPerMessage ==
    /\ [][ListenerReads =>
            LET message == Head(bus_inbox) IN
            IF bus_handlers[message.topic] # 0
            THEN /\ Len(invoked') = Len(invoked) + 1
                 /\ invoked'[Len(invoked')].id = message.id
                 /\ invoked'[Len(invoked')].topic = message.topic
                 /\ invoked'[Len(invoked')].handler
                        = bus_handlers[message.topic]
            ELSE invoked' = invoked]_vars
    /\ [][~ListenerReads => invoked' = invoked]_vars
    /\ [](\A i \in DOMAIN bus_inbox :
            bus_handlers[bus_inbox[i].topic] # 0 => listen_task = "running")
    /\ [](tasks_created <= 1)
    /\ [][(/\ bus_op'.n = bus_op.n + 1
           /\ bus_op'.op = "unsubscribe"
           /\ bus_handlers[bus_op'.topic] = 0
           /\ ~bus_channels[bus_op'.topic])
          => UNCHANGED <<bus_handlers, bus_channels, listen_task,
                         tasks_created, bus_inbox, invoked>>]_vars

\* C35: the listener goes on after a handler raised and after a message
\* whose data is not valid JSON, and a subscribe made once the listener
\* task has ended leaves a listener running again.
C35_ListenerSurvives ==
    /\ [][ListenerReads => listen_task' = "running"]_vars
    /\ [][(/\ bus_op'.n = bus_op.n + 1
           /\ bus_op'.op = "subscribe"
           /\ BusUsable)
          => listen_task' = "running"]_vars

\* C24: a broker that cannot be reached at start-up stops the process when
\* it is required (nothing is ever served), and otherwise leaves the bus in
\* no-op mode, in which nothing is published or delivered, no handler is
\* registered and no channel subscribed, and a subscriber's call of
\* subscribe returns normally: its handler goes on to the keep-alive loop
\* without being closed.
C24_NoOpMode ==
    /\ [](redis = "exit" =>
            /\ \A w \in Subs : sub_pc[w] = "idle"
            /\ published = 0 /\ inflight = <<>>)
    /\ [](redis = "none" =>
            /\ published = 0 /\ inflight = <<>> /\ ~bc.active
            /\ \A m \in Meetings : subscribers[m] = 0 /\ ~pubsub_channels[m]
            /\ \A w \in Subs : received[w] = <<>>)
    /\ [][redis = "none" =>
            \A w \in Subs :
                (sub_pc[w] = "sending_status" /\ sub_pc'[w] # sub_pc[w])
                => /\ sub_pc'[w] = "sub_loop"
                   /\ sub_close_code'[w] = 0]_vars

\* in no-op mode a subscriber has called subscribe and is in its loop
C24_Witness ==
    /\ redis = "none"
    /\ \E w \in Subs : sub_pc[w] = "sub_loop" /\ w \in RegisteredSubs(sub_meeting[w])

\* ------------------------- services/transcript/store.py TranscriptStore
\* the columns of models/meetings.py Transcript, which are the keyword
\* arguments its constructor accepts
TranscriptColumns ==
    {"id", "meeting_id", "segment_no", "speaker", "text", "start_ms", "end_ms",
     "is_final", "confidence", "raw_json", "created_at"}
\* the keyword arguments store_final_transcript passes to Transcript(...)
StoreKwargs ==
    {"meeting_id", "segment_no", "speaker", "text", "start_ms", "end_ms",
     "is_final", "confidence", "raw_json", "idempotent_key"}

\* the stream ids and segment numbers of the calls
StreamIds == {"m1_mic"}
SegmentNos == {1, 2}

\* f"{meeting_id}:{deepgram_stream_id}:{segment_no}"
IdempotentKey(meeting_id, deepgram_stream_id, segment_no) ==
    meeting_id \o ":" \o deepgram_stream_id \o ":" \o ToString(segment_no)

\* the rows that a SELECT ... WHERE idempotent_key = :key returns
RowsWithKey(key) ==
    {i \in DOMAIN transcripts : transcripts[i].idempotent_key = key}

\* store_final_transcript is called: the session is opened, the key is
\* built and the SELECT is issued.
StoreBegin(c, meeting_id, deepgram_stream_id, segment_no) ==
    /\ store_pc[c] = "idle"
    /\ \A b \in Calls : b < c => store_pc[b] # "idle"
    /\ store_pc' = [store_pc EXCEPT ![c] = "selecting"]
    /\ store_key' = [store_key EXCEPT ![c] =
           IdempotentKey(meeting_id, deepgram_stream_id, segment_no)]
    /\ store_after' = [store_after EXCEPT ![c] =
           {b \in Calls : store_pc[b] = "done"}]
    /\ UNCHANGED <<store_result, store_fault, transcripts>>
    /\ UNCHANGED <<sessVars, wsVars, rateVars, subVars, newVars>>

\* The SELECT returns.  A row with the key: return True.  None: the
\* Transcript is constructed, added and committed, and True is returned.
\* Every exception (of the database, or the TypeError of a keyword argument
\* that is no column of Transcript) is caught and False is returned.  The
\* constructor raising before db.commit(), the await of the commit is never
\* reached and is no separate step.
StoreFinish(c, selectOk, commitOk) ==
    /\ store_pc[c] = "selecting"
    /\ store_pc' = [store_pc EXCEPT ![c] = "done"]
    /\ IF ~selectOk
       THEN /\ store_result' = [store_result EXCEPT ![c] = "False"]
            /\ store_fault' = [store_fault EXCEPT ![c] = TRUE]
            /\ UNCHANGED transcripts
       ELSE IF RowsWithKey(store_key[c]) # {}
       THEN /\ store_result' = [store_result EXCEPT ![c] = "True"]
            /\ UNCHANGED <<store_fault, transcripts>>
       ELSE IF ~(StoreKwargs \subseteq TranscriptColumns)
       THEN /\ store_result' = [store_result EXCEPT ![c] = "False"]
            /\ UNCHANGED <<store_fault, transcripts>>
       ELSE IF ~commitOk
       THEN /\ store_result' = [store_result EXCEPT ![c] = "False"]
            /\ store_fault' = [store_fault EXCEPT ![c] = TRUE]
            /\ UNCHANGED transcripts
       ELSE /\ store_result' = [store_result EXCEPT ![c] = "True"]
            /\ transcripts' = Append(transcripts,
                                     [idempotent_key |-> store_key[c]])
            /\ UNCHANGED store_fault
    /\ UNCHANGED <<store_key, store_after>>
    /\ UNCHANGED <<sessVars, wsVars, rateVars, subVars, newVars>>

NextStore ==
    \/ \E c \in Calls, m \in Meetings, d \in StreamIds, n \in SegmentNos :
          StoreBegin(c, m, d, n)
    \/ \E c \in Calls, selectOk \in BOOLEAN, commitOk \in BOOLEAN :
          StoreFinish(c, selectOk, commitOk)

SpecStore == Init /\ [][NextStore]_vars

\* C3: when store_final_transcript is called a second time with the key of
\* a call that has returned (the database failing in neither), exactly one
\* row with that key is stored and the second call returns True.
C3_StoreTwiceOneRow ==
    \A first \in Calls, second \in Calls :
        (/\ store_pc[second] = "done"
         /\ first \in store_after[second]
         /\ store_key[first] = store_key[second]
         /\ ~store_fault[first] /\ ~store_fault[second])
        => /\ Cardinality(RowsWithKey(store_key[second])) = 1
           /\ store_result[second] = "True"

\* C33: two store_final_transcript calls with one idempotency key that
\* overlap (each began before the other returned), the database failing in
\* neither, leave exactly one row with that key once both have returned.
C33_ConcurrentStoreOneRow ==
    \A a \in Calls, b \in Calls :
        (/\ a # b
         /\ store_pc[a] = "done" /\ store_pc[b] = "done"
         /\ a \notin store_after[b] /\ b \notin store_after[a]
         /\ store_key[a] = store_key[b]
         /\ ~store_fault[a] /\ ~store_fault[b])
        => Cardinality(RowsWithKey(store_key[a])) = 1

\* C15: store_final_transcript always returns a boolean to its caller, and
\* returns False only when the database failed during the call.
C15_FalseOnlyOnStorageFailure ==
    \A c \in Calls :
        store_pc[c] = "done"
        => /\ store_result[c] \in {"True", "False"}
           /\ (store_result[c] = "False" => store_fault[c])

\* ------------------- websocket/ingest.py handle_websocket_ingest
\* The calls of StructuredLogger change no state of the handler and are
\* left out.
\* "Normalize source"
NormalizeSource(source) == IF source = "system" THEN "sys" ELSE source

\* safe_close(code, reason): a second call returns at once; a close on a
\* websocket that is disconnected or already closed sends nothing (the
\* RuntimeError of websocket.close is swallowed).
NewSafeClose(s, code) ==
    /\ is_closing' = [is_closing EXCEPT ![s] = TRUE]
    /\ IF /\ ~is_closing[s]
          /\ client_state[s] # "DISCONNECTED"
          /\ app_state[s] # "DISCONNECTED"
       THEN /\ app_state' = [app_state EXCEPT ![s] = "DISCONNECTED"]
            /\ close_code' = [close_code EXCEPT ![s] = code]
       ELSE UNCHANGED <<app_state, close_code>>

\* Steps 1-4: check_rate_limit, token extraction, decode_jwt_token (whose
\* SecurityError is logged and passed over), accept.
NewConnect(s, m, source, header, query) ==
    LET key == <<m, NormalizeSource(source)>>
        token == ExtractToken(header, query)
    IN
    /\ pc[s] = "idle"
    /\ Arrived(s)
    /\ connection_key' = [connection_key EXCEPT ![s] = key]
    /\ rate_limit_storage' =
          [rate_limit_storage EXCEPT ![key] = RateLimitStorageAfter(key)]
    /\ IF ~RateLimitAllows(key)
       THEN /\ rejected_at' = [rejected_at EXCEPT ![key] = now]
            /\ NewSafeClose(s, 1013)
            /\ pc' = [pc EXCEPT ![s] = "finally"]
            /\ UNCHANGED <<admitted, client_state, authed>>
       ELSE /\ admitted' = [admitted EXCEPT ![key] = Append(@, now)]
            /\ UNCHANGED rejected_at
            /\ IF token = "none"
               THEN /\ NewSafeClose(s, 1008)
                    /\ pc' = [pc EXCEPT ![s] = "finally"]
                    /\ UNCHANGED <<client_state, authed>>
               ELSE /\ authed' = [authed EXCEPT ![s] = (token = "good")]
                    /\ app_state' = [app_state EXCEPT ![s] = "CONNECTED"]
                    /\ client_state' = [client_state EXCEPT ![s] = "CONNECTED"]
                    /\ pc' = [pc EXCEPT ![s] = "accepted"]
                    /\ UNCHANGED <<is_closing, close_code>>
    /\ UNCHANGED <<acks, errors_sent, hs_ok, first_frame, handshake_source, now, wsVars,
                   subVars, storeVars, newVars>>

\* "Register new connection".  Without claims (the token did not verify)
\* claims.email raises UnboundLocalError before the entry is written; the
\* outer except clause closes with 1011.
NewRegisterEntry(s) ==
    LET key == connection_key[s] IN
    IF authed[s]
    THEN /\ ingest_registry' = [ingest_registry EXCEPT ![key] =
               [websocket |-> s, source |-> key[2], is_closing |-> FALSE]]
         /\ pc' = [pc EXCEPT ![s] = "await_handshake"]
         /\ UNCHANGED <<is_closing, app_state, close_code>>
    ELSE /\ NewSafeClose(s, 1011)
         /\ pc' = [pc EXCEPT ![s] = "finally"]
         /\ UNCHANGED ingest_registry

\* Step 5: the connection registered for the key, if its client has not
\* disconnected, is closed with 1012 (await); otherwise the registration
\* follows at once.
NewAfterAccept(s) ==
    LET old == ingest_registry[connection_key[s]].websocket IN
    /\ pc[s] = "accepted"
    /\ IF old # 0 /\ client_state[old] # "DISCONNECTED"
       THEN /\ IF app_state[old] # "DISCONNECTED"
               THEN /\ app_state' = [app_state EXCEPT ![old] = "DISCONNECTED"]
                    /\ close_code' = [close_code EXCEPT ![old] = 1012]
               ELSE UNCHANGED <<app_state, close_code>>
            /\ pc' = [pc EXCEPT ![s] = "closing_old"]
            /\ UNCHANGED <<is_closing, ingest_registry>>
       ELSE NewRegisterEntry(s)
    /\ UNCHANGED <<connection_key, client_state, acks, errors_sent, hs_ok, first_frame,
                   handshake_source, authed>>
    /\ UNCHANGED <<ingest_connections, connection_meetings, meeting_segments,
                   rateVars, subVars, storeVars, newVars>>

\* Resumes after await old_websocket.close(...).
NewRegister(s) ==
    /\ pc[s] = "closing_old"
    /\ NewRegisterEntry(s)
    /\ UNCHANGED <<connection_key, client_state, acks, errors_sent, hs_ok, first_frame,
                   handshake_source, authed>>
    /\ UNCHANGED <<ingest_connections, connection_meetings, meeting_segments,
                   rateVars, subVars, storeVars, newVars>>

\* Steps 6-7: the first frame, its validation and the handshake-ack.  The
\* disconnect of the client is caught with every other receive error
\* (close 1002, which then sends nothing); a JSON value that is no object
\* raises AttributeError while the error is logged (close 1011).
NewHandshake(s, ev, msg, sendOk) ==
    /\ pc[s] = "await_handshake"
    /\ sendOk => app_state[s] = "CONNECTED"
    /\ hs_ok' = [hs_ok EXCEPT ![s] =
                    ev = "message" /\ HandshakeAcceptable(msg, connection_key[s])]
    /\ first_frame' = [first_frame EXCEPT ![s] =
           FirstFrame(ev, msg, HandshakeAcceptable(msg, connection_key[s]))]
    /\ IF ev = "disconnect"
       THEN /\ client_state' = [client_state EXCEPT ![s] = "DISCONNECTED"]
            /\ is_closing' = [is_closing EXCEPT ![s] = TRUE]
            /\ pc' = [pc EXCEPT ![s] = "finally"]
            /\ UNCHANGED <<app_state, close_code, acks>>
       ELSE IF ev = "nondict"
       THEN /\ NewSafeClose(s, 1011)
            /\ pc' = [pc EXCEPT ![s] = "finally"]
            /\ UNCHANGED <<client_state, acks>>
       ELSE IF ev \in {"timeout", "garbage"}
               \/ ~HandshakeAcceptable(msg, connection_key[s])
       THEN /\ NewSafeClose(s, 1002)
            /\ pc' = [pc EXCEPT ![s] = "finally"]
            /\ UNCHANGED <<client_state, acks>>
       ELSE IF sendOk
       THEN /\ acks' = [acks EXCEPT ![s] = @ + 1]
            /\ pc' = [pc EXCEPT ![s] = "acked"]
            /\ UNCHANGED <<client_state, is_closing, app_state, close_code>>
       ELSE /\ NewSafeClose(s, 1011)
            /\ pc' = [pc EXCEPT ![s] = "finally"]
            /\ UNCHANGED <<client_state, acks>>
    /\ UNCHANGED <<connection_key, errors_sent, handshake_source, authed>>
    /\ UNCHANGED <<wsVars, rateVars, subVars, storeVars, newVars>>

\* Step 8: DeepgramLiveClient(...) without callbacks, and client.connect(),
\* which opens the transport and starts the listener task, or raises (no
\* API key, or the upstream handshake fails; on_error is None).
NewRelayConnect(s, connectOk) ==
    /\ pc[s] = "acked"
    /\ IF connectOk
       THEN /\ relay' = [relay EXCEPT ![s] = "connected"]
            /\ listener' = [listener EXCEPT ![s] = "running"]
            /\ transport' = [transport EXCEPT ![s] = "open"]
            /\ pc' = [pc EXCEPT ![s] = "streaming"]
            /\ UNCHANGED <<is_closing, app_state, close_code>>
       ELSE /\ relay' = [relay EXCEPT ![s] = "created"]
            /\ NewSafeClose(s, 1011)
            /\ pc' = [pc EXCEPT ![s] = "finally"]
            /\ UNCHANGED <<listener, transport>>
    /\ UNCHANGED <<transcripts_received, last_result>>
    /\ UNCHANGED <<connection_key, client_state, acks, errors_sent, hs_ok, first_frame,
                   handshake_source, authed>>
    /\ UNCHANGED <<frames_sent, message_count, bytes_received, last_text,
                   clientVars, busVars>>
    /\ UNCHANGED <<wsVars, rateVars, subVars, storeVars>>

\* the lengths of the binary frames: small, the maximum, one above
FrameSizes == {1, MAX_INGEST_MSG_BYTES, MAX_INGEST_MSG_BYTES + 1}
\* the text frames: the two control messages of the protocol, and a text
\* that is neither (not JSON, or of a type that is not a control type)
ControlTexts == {"finalize", "close", "unknown"}

\* Step 9, one turn of "async for message in websocket.iter_bytes()".
\*   bytes: counted; longer than MAX_INGEST_MSG_BYTES: close 1009 and
\*     break; otherwise client.send_audio(message), a method
\*     DeepgramLiveClient does not have: the AttributeError is caught,
\*     close 1011 and break.
\*   text: receive_bytes finds no "bytes" in the message; the KeyError
\*     reaches the outer except clause, close 1011.
\*   disconnect: iter_bytes ends the loop.
NewFrame(s, ev, size, text) ==
    /\ pc[s] = "streaming"
    /\ ev # "disconnect" => app_state[s] = "CONNECTED"
    /\ pc' = [pc EXCEPT ![s] = "finally"]
    /\ IF ev = "bytes"
       THEN /\ message_count' = [message_count EXCEPT ![s] = @ + 1]
            /\ bytes_received' = [bytes_received EXCEPT ![s] = @ + size]
            /\ IF size > MAX_INGEST_MSG_BYTES
               THEN NewSafeClose(s, 1009)
               ELSE NewSafeClose(s, 1011)
            /\ UNCHANGED <<client_state, last_text>>
       ELSE IF ev = "text"
       THEN /\ last_text' = [last_text EXCEPT ![s] = text]
            /\ NewSafeClose(s, 1011)
            /\ UNCHANGED <<client_state, message_count, bytes_received>>
       ELSE /\ client_state' = [client_state EXCEPT ![s] = "DISCONNECTED"]
            /\ UNCHANGED <<is_closing, app_state, close_code, message_count,
                           bytes_received, last_text>>
    /\ UNCHANGED <<connection_key, acks, errors_sent, hs_ok, first_frame, handshake_source,
                   authed, relay, frames_sent, relayVars, clientVars, busVars>>
    /\ UNCHANGED <<wsVars, rateVars, subVars, storeVars>>

\* The finally block: client.close() (no such method: the AttributeError
\* is caught and the relay stays as it is), then the registry entry is
\* deleted if its connection_id is this connection's.
NewFinally(s) ==
    LET key == connection_key[s] IN
    /\ pc[s] = "finally"
    /\ ingest_registry' = IF ingest_registry[key].websocket = s
                          THEN [ingest_registry EXCEPT ![key] = NoEntry]
                          ELSE ingest_registry
    /\ pc' = [pc EXCEPT ![s] = "done"]
    /\ app_state' = [app_state EXCEPT ![s] = "DISCONNECTED"]
    /\ UNCHANGED <<connection_key, is_closing, client_state, close_code, acks,
                   errors_sent, hs_ok, first_frame, handshake_source, authed>>
    /\ UNCHANGED <<ingest_connections, connection_meetings, meeting_segments,
                   rateVars, subVars, storeVars, newVars>>

\* ----------------- services/asr/deepgram_live.py DeepgramLiveClient
\* (the relay of a session of websocket/ingest.py)
RECURSIVE SumUpTo(_, _)
SumUpTo(f, n) == IF n = 0 THEN 0 ELSE f[n] + SumUpTo(f, n - 1)
\* the results sent so far, over all relays
ResultsSoFar == SumUpTo(transcripts_received, NumSessions)

\* _listen_loop reads a "Results" event with a non-empty transcript:
\* _handle_transcript_result counts it and calls on_transcript if there is
\* one.  The handler of websocket/ingest.py passes none: the result is
\* dropped.
RelayResult(s, is_final) ==
    /\ listener[s] = "running"
    /\ ResultsSoFar < MaxResults
    /\ transcripts_received' = [transcripts_received EXCEPT ![s] = @ + 1]
    /\ last_result' = [last_result EXCEPT ![s] =
                           IF is_final THEN "final" ELSE "partial"]
    /\ UNCHANGED <<relay, listener, transport, frames_sent, message_count,
                   bytes_received, last_text, clientVars, busVars>>
    /\ UNCHANGED <<sessVars, wsVars, rateVars, subVars, storeVars>>

\* what ends the listener: the 30 s read timeout, the upstream closing the
\* connection, an "Error" event (_handle_error; on_error is None)
ListenerEnds == {"timeout", "closed", "error_event"}

\* _listen_loop ends: is_connected becomes False and the task finishes.
\* The loop does not close the transport (after ConnectionClosed the peer
\* has closed it), and the handler is not told.
RelayListenerEnds(s, cause) ==
    /\ listener[s] = "running"
    /\ relay' = [relay EXCEPT ![s] = "disconnected"]
    /\ listener' = [listener EXCEPT ![s] = "finished"]
    /\ transport' = [transport EXCEPT ![s] =
                        IF cause = "closed" THEN "closed" ELSE @]
    /\ UNCHANGED <<transcripts_received, last_result, frames_sent,
                   message_count, bytes_received, last_text, clientVars, busVars>>
    /\ UNCHANGED <<sessVars, wsVars, rateVars, subVars, storeVars>>

\* ---- the methods of DeepgramLiveClient, called on a client of its own
\* (as test_pipeline.py and verify_deepgram_real.py do)
\* the lengths of the PCM frames handed to send_pcm
PcmSizes == {1, 3}

\* connect() on a new client.
RelayConnect(c, connectOk) ==
    /\ pc[c] = "idle"
    /\ relay[c] = "none"
    /\ IF connectOk
       THEN /\ relay' = [relay EXCEPT ![c] = "connected"]
            /\ listener' = [listener EXCEPT ![c] = "running"]
            /\ transport' = [transport EXCEPT ![c] = "open"]
       ELSE /\ relay' = [relay EXCEPT ![c] = "created"]
            /\ UNCHANGED <<listener, transport>>
    /\ UNCHANGED <<transcripts_received, last_result, frames_sent,
                   message_count, bytes_received, last_text, clientVars, busVars>>
    /\ UNCHANGED <<sessVars, wsVars, rateVars, subVars, storeVars>>

\* send_pcm without its check of is_finalizing
PcmOutcomeFinalizeUnchecked(c, sendOk) ==
    IF relay[c] # "connected" THEN "error"
    ELSE IF sendOk THEN "sent" ELSE "failed"
\* how a call of send_pcm ends: RuntimeError when not connected, a silent
\* return while finalizing, otherwise the send, which can raise
PcmOutcome(c, sendOk) ==
    IF relay[c] # "connected" THEN "error"
    ELSE IF is_finalizing[c] THEN "refused"
    ELSE IF sendOk THEN "sent" ELSE "failed"

\* send_pcm(pcm_data).  A send that raises goes through _handle_error
\* (is_connected = False) and is raised again.
RelaySendPcm(c, size, sendOk) ==
    LET outcome == PcmOutcome(c, sendOk) IN
    /\ pc[c] = "idle"
    /\ relay[c] # "none"
    /\ pcm_calls[c] < MaxPcmCalls
    /\ pcm_calls' = [pcm_calls EXCEPT ![c] = @ + 1]
    /\ pcm_result' = [pcm_result EXCEPT ![c] = outcome]
    /\ IF outcome = "sent"
       THEN /\ upstream' = [upstream EXCEPT ![c] = Append(@, size)]
            /\ bytes_sent' = [bytes_sent EXCEPT ![c] = @ + size]
            /\ frames_sent' = [frames_sent EXCEPT ![c] = @ + 1]
       ELSE UNCHANGED <<upstream, bytes_sent, frames_sent>>
    /\ relay' = IF outcome = "failed"
                THEN [relay EXCEPT ![c] = "disconnected"] ELSE relay
    /\ UNCHANGED <<is_finalizing, fin_pc, disconnect_calls, relayVars,
                   message_count, bytes_received, last_text, busVars>>
    /\ UNCHANGED <<sessVars, wsVars, rateVars, subVars, storeVars>>

\* disconnect(): returns at once when is_connected is False; otherwise the
\* listener task is cancelled and awaited and the websocket closed.  (What
\* runs during its two awaits finds is_connected False already and changes
\* nothing that disconnect goes on to read.)
Disconnected(c) ==
    /\ disconnect_calls' = [disconnect_calls EXCEPT ![c] = @ + 1]
    /\ IF relay[c] = "connected"
       THEN /\ relay' = [relay EXCEPT ![c] = "disconnected"]
            /\ listener' = [listener EXCEPT ![c] = "finished"]
            /\ transport' = [transport EXCEPT ![c] = "closed"]
       ELSE UNCHANGED <<relay, listener, transport>>

RelayDisconnect(c) ==
    /\ pc[c] = "idle"
    /\ relay[c] # "none"
    /\ disconnect_calls[c] < MaxDisconnects
    /\ Disconnected(c)
    /\ UNCHANGED <<transcripts_received, last_result, frames_sent,
                   message_count, bytes_received, last_text, is_finalizing,
                   bytes_sent, upstream, fin_pc, pcm_calls, pcm_result>>
    /\ UNCHANGED <<sessVars, wsVars, rateVars, subVars, storeVars, busVars>>

\* finalize(): nothing when not connected or already finalizing; otherwise
\* is_finalizing is set and CloseStream is sent.  After the send the call
\* sleeps for one second; a send that raises is logged and the finally
\* clause disconnects at once.
RelayFinalize(c, sendOk) ==
    /\ pc[c] = "idle"
    /\ relay[c] # "none"
    /\ IF relay[c] # "connected" \/ is_finalizing[c]
       THEN UNCHANGED <<is_finalizing, upstream, fin_pc, relay, listener,
                        transport, disconnect_calls>>
       ELSE /\ is_finalizing' = [is_finalizing EXCEPT ![c] = TRUE]
            /\ IF sendOk
               THEN /\ upstream' = [upstream EXCEPT ![c] = Append(@, 0)]
                    /\ fin_pc' = [fin_pc EXCEPT ![c] = "sleeping"]
                    /\ UNCHANGED <<relay, listener, transport,
                                   disconnect_calls>>
               ELSE /\ fin_pc' = [fin_pc EXCEPT ![c] = "returned"]
                    /\ Disconnected(c)
                    /\ UNCHANGED upstream
    /\ UNCHANGED <<transcripts_received, last_result, frames_sent,
                   message_count, bytes_received, last_text, bytes_sent,
                   pcm_calls, pcm_result>>
    /\ UNCHANGED <<sessVars, wsVars, rateVars, subVars, storeVars, busVars>>

\* finalize() wakes from its sleep: the finally clause calls disconnect(),
\* and finalize returns.
RelayFinalizeWakes(c) ==
    /\ fin_pc[c] = "sleeping"
    /\ fin_pc' = [fin_pc EXCEPT ![c] = "returned"]
    /\ Disconnected(c)
    /\ UNCHANGED <<transcripts_received, last_result, frames_sent,
                   message_count, bytes_received, last_text, is_finalizing,
                   bytes_sent, upstream, pcm_calls, pcm_result>>
    /\ UNCHANGED <<sessVars, wsVars, rateVars, subVars, storeVars, busVars>>

NextClient ==
    \/ \E c \in Clients, connectOk \in BOOLEAN : RelayConnect(c, connectOk)
    \/ \E c \in Clients, size \in PcmSizes, sendOk \in BOOLEAN :
          RelaySendPcm(c, size, sendOk)
    \/ \E c \in Clients, sendOk \in BOOLEAN : RelayFinalize(c, sendOk)
    \/ \E c \in Clients : RelayFinalizeWakes(c)
    \/ \E c \in Clients : RelayDisconnect(c)
    \/ \E c \in Clients, is_final \in BOOLEAN : RelayResult(c, is_final)
    \/ \E c \in Clients, cause \in ListenerEnds :
          RelayListenerEnds(c, cause)

SpecClient == Init /\ [][NextClient]_vars

\* C28: finalize() on a connected relay sends CloseStream, and when it
\* returns the relay is disconnected, its listener finished and its
\* transport closed, whether or not the send succeeded or results arrived
\* in between; while it is in progress nothing more is sent upstream, by a
\* second finalize() or otherwise.
C28_FinalizeEndsRelay ==
    [][\A c \in Sessions :
          /\ (is_finalizing'[c] /\ ~is_finalizing[c])
             => /\ relay[c] = "connected"
                /\ \/ upstream'[c] = Append(upstream[c], 0)
                   \/ fin_pc'[c] = "returned" /\ upstream'[c] = upstream[c]
          /\ (fin_pc'[c] = "returned" /\ fin_pc[c] # "returned")
             => /\ relay'[c] = "disconnected"
                /\ listener'[c] = "finished"
                /\ transport'[c] = "closed"
          /\ fin_pc[c] = "sleeping" => upstream'[c] = upstream[c]]_vars

\* C29: a call of disconnect() on a client that had connected leaves its
\* listener finished and its transport closed (and is_connected False),
\* also when the listener had ended by itself before; a call that finds
\* the client so changes nothing.
C29_DisconnectClosesTransport ==
    [][\A c \in Sessions :
          (disconnect_calls'[c] = disconnect_calls[c] + 1
           /\ transport[c] # "none")
          => /\ relay'[c] = "disconnected"
             /\ listener'[c] = "finished"
             /\ transport'[c] = "closed"
             /\ (listener[c] = "finished" /\ transport[c] = "closed")
                => relay'[c] = relay[c]]_vars

Defects(msg) ==
    (IF msg.type = "handshake" THEN 0 ELSE 1)
    + (IF msg.device_id # "" THEN 0 ELSE 1)
    + (IF msg.source \in {"mic", "sys"} THEN 0 ELSE 1)
    + (IF msg.sample_rate = INGEST_SAMPLE_RATE THEN 0 ELSE 1)
    + (IF msg.channels = INGEST_CHANNELS THEN 0 ELSE 1)
\* the first messages this handler is given: at most one field fails
ProbeMsgs == {msg \in HandshakeMsgs : Defects(msg) <= 1}

NextNew ==
    \/ \E s \in Sessions, m \in Meetings, source \in UrlSources,
          header \in Credentials, query \in Credentials :
            NewConnect(s, m, source, header, query)
    \/ \E s \in Sessions : NewAfterAccept(s)
    \/ \E s \in Sessions : NewRegister(s)
    \/ \E s \in Sessions, msg \in ProbeMsgs, sendOk \in BOOLEAN :
            NewHandshake(s, "message", msg, sendOk)
    \/ \E s \in Sessions, ev \in ReceiveFailures :
            NewHandshake(s, ev, NoMsg, FALSE)
    \/ \E s \in Sessions, connectOk \in BOOLEAN : NewRelayConnect(s, connectOk)
    \/ \E s \in Sessions, size \in FrameSizes : NewFrame(s, "bytes", size, "none")
    \/ \E s \in Sessions, text \in ControlTexts : NewFrame(s, "text", 0, text)
    \/ \E s \in Sessions : NewFrame(s, "disconnect", 0, "none")
    \/ \E s \in Sessions : NewFinally(s)

SpecNew == Init /\ [][NextNew]_vars

\* The handler of websocket/ingest.py together with the listener tasks of
\* its relays, for the connections of RelaySessions.

\* the steps of the server that wait for nothing from the client
ServerStep(s) ==
    \/ NewAfterAccept(s)
    \/ NewRegister(s)
    \/ \E connectOk \in BOOLEAN : NewRelayConnect(s, connectOk)
    \/ NewFinally(s)

\* the steps that follow a frame, a disconnect or silence of the client
ClientStep(s) ==
    \/ \E m \in Meetings, source \in UrlSources,
          header \in Credentials, query \in Credentials :
            NewConnect(s, m, source, header, query)
    \/ \E msg \in ProbeMsgs, sendOk \in BOOLEAN :
            NewHandshake(s, "message", msg, sendOk)
    \/ \E ev \in ReceiveFailures : NewHandshake(s, ev, NoMsg, FALSE)
    \/ \E size \in FrameSizes : NewFrame(s, "bytes", size, "none")
    \/ \E text \in ControlTexts : NewFrame(s, "text", 0, text)
    \/ NewFrame(s, "disconnect", 0, "none")

\* the steps of the listener task of the relay of s
UpstreamStep(s) ==
    \/ \E is_final \in BOOLEAN : RelayResult(s, is_final)
    \/ \E cause \in ListenerEnds : RelayListenerEnds(s, cause)

NextRelay ==
    \/ \E ok \in BOOLEAN, required \in BOOLEAN : BusConnect(ok, required)
    \/ \E s \in RelaySessions : ClientStep(s)
    \/ \E s \in RelaySessions : ServerStep(s)
    \/ \E s \in RelaySessions : UpstreamStep(s)

SpecRelay == Init /\ [][NextRelay]_vars

\* The event loop runs every coroutine that is ready: a step of the server
\* that stays enabled is taken.  Nothing makes the client send a frame or
\* the speech-recognition service send an event.
SpecRelayFair ==
    SpecRelay /\ \A s \in RelaySessions : WF_vars(ServerStep(s))

\* the relay of s handles a result in this step
HandlesResult(s) == transcripts_received'[s] = transcripts_received[s] + 1
HandlesFinal(s) == HandlesResult(s) /\ last_result'[s] = "final"

====
